---- MODULE Spec2Model ----
(***************************************************************************)
(* Model of the extraction pipeline of app/services/extraction.py:         *)
(* ExtractionService.extract (attempt loop, retry decision, exhaustion     *)
(* classification), the lazily created client and the canonicalizer        *)
(* (_extraction_to_dict / _convert_filter_group).                          *)
(*                                                                         *)
(* Conventions.                                                            *)
(*  - Python's None is the empty sequence <<>>; a present value v is <<v>>.*)
(*  - Temperatures are integers in hundredths (0.05 is 5, 0.1 is 10).      *)
(*  - str(e) is a sequence of words; the substring tests of the code are   *)
(*    word-level tests (WordHas) over that sequence.                       *)
(***************************************************************************)
EXTENDS Integers, Sequences, FiniteSets, TLC

VARIABLES
    pc,           \* position of the extract call
    client,       \* ExtractionService._client
    deployment,   \* ExtractionService._deployment
    query,        \* argument of the running extract call
    temperature_arg, \* argument `temperature` of the running extract call
    temperature,  \* local `temperature` after defaulting (the base)
    attempt,      \* loop variable of `for attempt in range(max_retries)`
    last_error,   \* local `last_error`
    sent,         \* requests handed to the inference collaborator (history)
    outcomes,     \* what each attempt of the call ended with (history)
    extraction,   \* local `extraction` (the validated model)
    result,       \* value returned by extract
    raised,       \* exception raised by extract
    raw,          \* a response text of the collaborator, as a JSON tree
    verdict,      \* what model_validate_json made of `raw`
    calls,        \* locals of the extract calls running on separate threads
    constructed,  \* number of AzureOpenAI clients constructed so far
    clock,        \* the wall-clock date, what date.today() returns
    elapsed,      \* days the wall clock has advanced since the start
    composed      \* the last two compositions of the prompt builder

vars == <<pc, client, deployment, query, temperature_arg, temperature, attempt,
          last_error, sent, outcomes, extraction, result, raised,
          raw, verdict, calls, constructed, clock, elapsed, composed>>

\* the state of the single-call view of extract
svars == <<pc, query, temperature_arg, temperature, attempt, last_error, sent,
           outcomes, extraction, result, raised>>

\* the state of the validation view and of the threaded view
vvars == <<raw, verdict>>

cvars == <<calls, constructed>>

\* the state of the prompt builder's view: the wall clock and what was composed
pvars == <<clock, elapsed, composed>>

None == <<>>

Some(v) == <<v>>

(***************************************************************************)
(* Bounds of the model.                                                    *)
(***************************************************************************)
MaxGroups == 1

MaxRawGroups == 2

MaxYears == 2

MaxDays == 1

(***************************************************************************)
(* Configuration (app/core/config.py) and constants of extract.            *)
(***************************************************************************)
extraction_temperature == 10

azure_openai_deployment == "gpt-deployment"

max_retries_six == 5 + 1

max_retries == 5

TemperatureStep == 5

Queries == {"q1", "q2"}

TemperatureArgs == {None, Some(0), Some(100)}

(***************************************************************************)
(* Filter schema (app/models/domain.py): sample validated values.          *)
(***************************************************************************)
DateFilter ==
    { [operator |-> "BETWEEN", value |-> None,
       start_date |-> Some("2024-01-01"), end_date |-> Some("2024-12-31"),
       recent_days |-> rd] : rd \in {None, Some(0), Some(90)} }

TextFilter ==
    { [operator |-> "LIKE", value |-> Some("%Acme%"), values |-> None] }

Optional(S) == {None} \cup { Some(v) : v \in S }

FilterGroup ==
    [StartDate : Optional(DateFilter), EndDate : {None},
     funded_amount : {None}, total_amount : {None},
     vendor : Optional(TextFilter), subdoctype : {None},
     product_service_code : {None}, industry_code : {None}, set_aside : {None}]

SlotNames ==
    {"StartDate", "EndDate", "funded_amount", "total_amount", "subdoctype",
     "vendor", "product_service_code", "industry_code", "set_aside"}

SeqUpTo(S, n) == UNION { [1..k -> S] : k \in 0..n }

ProcurementQueryExtraction ==
    [filter_groups : SeqUpTo(FilterGroup, MaxGroups),
     group_operator_between_groups : Optional({"AND", "OR"}),
     original_query : Queries]

(***************************************************************************)
(* Python truthiness of an Optional[int]: None and 0 are falsy; of an      *)
(* Optional[BaseModel]: only None is falsy.                                *)
(***************************************************************************)
TruthyInt(o) == o # None /\ o[1] # 0

TruthyModel(o) == o # None

(***************************************************************************)
(* ExtractionService._convert_filter_group: a key per populated slot.      *)
(***************************************************************************)
date_filter_dict(f) ==
    LET keys == {"operator", "value", "start_date", "end_date"}
                  \cup (IF TruthyInt(f.recent_days) THEN {"recent_days"} ELSE {})
    IN  [k \in keys |-> f[k]]

text_filter_dict(f) ==
    [operator |-> f.operator, value |-> f.value, values |-> f.values]

amount_filter_dict(f) ==
    [operator |-> f.operator, value |-> f.value,
     min_value |-> f.min_value, max_value |-> f.max_value]

\* CodeLevel.model_dump()
model_dump(level) == [code |-> level.code, description |-> level.description]

level_dict(o) == IF TruthyModel(o) THEN Some(model_dump(o[1])) ELSE None

psc_info_dict(f) ==
    [psc_code |-> f.psc_code, description |-> f.description,
     level1 |-> level_dict(f.level1), level2 |-> level_dict(f.level2)]

naics_info_dict(f) ==
    [naics_code |-> f.naics_code, description |-> f.description,
     level1 |-> level_dict(f.level1), level2 |-> level_dict(f.level2)]

set_aside_dict(f) == [description |-> f.description, code |-> f.code]

slot_dict(slot, f) ==
    CASE slot \in {"StartDate", "EndDate"} -> date_filter_dict(f)
      [] slot \in {"funded_amount", "total_amount"} -> amount_filter_dict(f)
      [] slot \in {"subdoctype", "vendor"} -> text_filter_dict(f)
      [] slot = "product_service_code" -> psc_info_dict(f)
      [] slot = "industry_code" -> naics_info_dict(f)
      [] slot = "set_aside" -> set_aside_dict(f)

convert_filter_group_placeholders(group) ==
    [s \in SlotNames |->
       IF TruthyModel(group[s]) THEN slot_dict(s, group[s][1]) ELSE [null |-> TRUE]]

convert_filter_group(group) ==
    LET keys == { s \in SlotNames : TruthyModel(group[s]) }
    IN  [s \in keys |-> slot_dict(s, group[s][1])]

extraction_to_dict_callerquery(x) ==
    [original_query |-> query[1],
     group_operator_between_groups |-> x.group_operator_between_groups,
     filter_groups |-> [i \in DOMAIN x.filter_groups |->
                          convert_filter_group(x.filter_groups[i])]]

(***************************************************************************)
(* ExtractionService._extraction_to_dict.                                  *)
(***************************************************************************)
extraction_to_dict(x) ==
    [original_query |-> x.original_query,
     group_operator_between_groups |-> x.group_operator_between_groups,
     filter_groups |-> [i \in DOMAIN x.filter_groups |->
                          convert_filter_group(x.filter_groups[i])]]

(***************************************************************************)
(* Error messages.  str(e) is a sequence of words.                         *)
(***************************************************************************)
Lower(w) ==
    CASE w = "OpenAI" -> "openai"
      [] w = "API" -> "api"
      [] w = "Capital" -> "capital"
      [] OTHER -> w

LowerMsg(msg) == [i \in DOMAIN msg |-> Lower(msg[i])]

\* needle in w, for the needles the code searches and the words of the model
WordHas(w, needle) ==
    CASE needle = "api" -> w \in {"api", "capital"}
      [] needle = "openai" -> w = "openai"
      [] OTHER -> w = needle

Contains(msg, needle) == \E i \in DOMAIN msg : WordHas(msg[i], needle)

(***************************************************************************)
(* pydantic's ValidationError of model_validate_json: str(e) lists, for    *)
(* each error, its message, its type and the offending input value.        *)
(***************************************************************************)
ErrorTypeSets ==
    { {"extra_forbidden"}, {"literal_error"}, {"json_invalid"} }

InputWords == {"x", "Capital", "OpenAI", "extra_forbidden"}

ValidationErrorStr(types, input) ==
    <<"validation error for ProcurementQueryExtraction">>
    \o (IF "extra_forbidden" \in types
          THEN <<"Extra inputs are not permitted", "extra_forbidden">> ELSE <<>>)
    \o (IF "literal_error" \in types
          THEN <<"Input should be", "literal_error">> ELSE <<>>)
    \o (IF "json_invalid" \in types
          THEN <<"Invalid JSON", "json_invalid">> ELSE <<>>)
    \o <<input>>

\* origin "shape": a closedness violation (an extra/forbidden field);
\* origin "validation": any other parse/validation failure
ValidationErrors ==
    { [origin |-> IF "extra_forbidden" \in ts THEN "shape" ELSE "validation",
       msg |-> ValidationErrorStr(ts, w)] : ts \in ErrorTypeSets, w \in InputWords }

\* failures of client.chat.completions.create (transport / provider)
ProviderErrors ==
    { [origin |-> "provider", msg |-> m] :
        m \in { <<"Connection error.">>, <<"Request timed out.">>,
                <<"Error code: 401", "API">>,
                <<"Error code: 400", "extra_forbidden">> } }

\* failure of the AzureOpenAI constructor in _get_client
ClientErrors ==
    { [origin |-> "client", msg |-> <<"Missing credentials", "api">>] }

str(e) == e.msg

(***************************************************************************)
(* JSON trees: the text returned by the collaborator, once parsed.         *)
(***************************************************************************)
Null == [t |-> "null"]

S(x) == [t |-> "str", s |-> x]

N(n) == [t |-> "num", n |-> n]

L(seq) == [t |-> "list", items |-> seq]

O(f) == [t |-> "obj", fields |-> f]

NotJson == [t |-> "invalid"]

EmptyObject == O([k \in {} |-> Null])

(***************************************************************************)
(* The declared shape of the models of app/models/domain.py: for each      *)
(* class, its fields with their types; Optional[...] = None fields are     *)
(* optional, the others are required.                                      *)
(***************************************************************************)
TStr == [k |-> "str"]

TNum == [k |-> "num"]

TLit(set) == [k |-> "lit", set |-> set]

TList(T) == [k |-> "list", of |-> T]

TModel(cls) == [k |-> "model", cls |-> cls]

RequiredField(T) == [type |-> T, optional |-> FALSE]

OptionalField(T) == [type |-> T, optional |-> TRUE]

RangeOperators == {"=", "<", ">", "<=", ">=", "BETWEEN"}

TextOperators == {"=", "LIKE", "IN"}

ModelClasses ==
    {"DateFilter", "AmountFilter", "TextFilter", "CodeLevel", "PSCInfo",
     "NAICSInfo", "SetAsideFilter", "FilterGroup", "ProcurementQueryExtraction"}

ModelFields(cls) ==
    CASE cls = "DateFilter" ->
           [operator |-> RequiredField(TLit(RangeOperators)),
            value |-> OptionalField(TStr),
            start_date |-> OptionalField(TStr),
            end_date |-> OptionalField(TStr),
            recent_days |-> OptionalField(TNum)]
      [] cls = "AmountFilter" ->
           [operator |-> RequiredField(TLit(RangeOperators)),
            value |-> OptionalField(TNum),
            min_value |-> OptionalField(TNum),
            max_value |-> OptionalField(TNum)]
      [] cls = "TextFilter" ->
           [operator |-> RequiredField(TLit(TextOperators)),
            value |-> OptionalField(TStr),
            values |-> OptionalField(TList(TStr))]
      [] cls = "CodeLevel" ->
           [code |-> RequiredField(TStr),
            description |-> RequiredField(TStr)]
      [] cls = "PSCInfo" ->
           [psc_code |-> OptionalField(TList(TStr)),
            description |-> OptionalField(TStr),
            level1 |-> OptionalField(TModel("CodeLevel")),
            level2 |-> OptionalField(TModel("CodeLevel"))]
      [] cls = "NAICSInfo" ->
           [naics_code |-> OptionalField(TList(TStr)),
            description |-> OptionalField(TStr),
            level1 |-> OptionalField(TModel("CodeLevel")),
            level2 |-> OptionalField(TModel("CodeLevel"))]
      [] cls = "SetAsideFilter" ->
           [description |-> OptionalField(TStr),
            code |-> OptionalField(TList(TStr))]
      [] cls = "FilterGroup" ->
           [StartDate |-> OptionalField(TModel("DateFilter")),
            EndDate |-> OptionalField(TModel("DateFilter")),
            funded_amount |-> OptionalField(TModel("AmountFilter")),
            total_amount |-> OptionalField(TModel("AmountFilter")),
            vendor |-> OptionalField(TModel("TextFilter")),
            subdoctype |-> OptionalField(TModel("TextFilter")),
            product_service_code |-> OptionalField(TModel("PSCInfo")),
            industry_code |-> OptionalField(TModel("NAICSInfo")),
            set_aside |-> OptionalField(TModel("SetAsideFilter"))]
      [] cls = "ProcurementQueryExtraction" ->
           [filter_groups |-> RequiredField(TList(TModel("FilterGroup"))),
            group_operator_between_groups |-> OptionalField(TLit({"AND", "OR"})),
            original_query |-> RequiredField(TStr)]

ExtraForbidden_rootonly(cls) == cls = "ProcurementQueryExtraction"

ExtraForbidden_notinfo(cls) == cls \in ModelClasses \ {"PSCInfo", "NAICSInfo"}

\* model_config = ConfigDict(extra='forbid'), set on every class
ExtraForbidden(cls) == cls \in ModelClasses

(***************************************************************************)
(* pydantic validation of a JSON tree v against a declared type T: the set *)
(* of the error types it reports (empty: v is accepted).                   *)
(***************************************************************************)
RECURSIVE TypeErrors(_, _)
TypeErrors(T, v) ==
    CASE T.k = "str" -> IF v.t = "str" THEN {} ELSE {"string_type"}
      [] T.k = "num" -> IF v.t = "num" THEN {} ELSE {"number_type"}
      [] T.k = "lit" ->
           IF v.t = "str" /\ v.s \in T.set THEN {} ELSE {"literal_error"}
      [] T.k = "list" ->
           IF v.t = "list"
             THEN UNION { TypeErrors(T.of, v.items[i]) : i \in DOMAIN v.items }
             ELSE {"list_type"}
      [] T.k = "model" ->
           IF v.t = "obj"
             THEN LET fields == ModelFields(T.cls)
                      obj == v.fields
                  IN  (IF ExtraForbidden(T.cls) /\ DOMAIN obj \ DOMAIN fields # {}
                         THEN {"extra_forbidden"} ELSE {})
                      \cup
                      (IF \E f \in DOMAIN fields \ DOMAIN obj : ~fields[f].optional
                         THEN {"missing"} ELSE {})
                      \cup
                      UNION { IF fields[f].optional /\ obj[f].t = "null"
                                THEN {}
                                ELSE TypeErrors(fields[f].type, obj[f]) :
                              f \in DOMAIN fields \cap DOMAIN obj }
             ELSE {"model_type"}

(***************************************************************************)
(* The model instance pydantic builds from an accepted tree: required      *)
(* fields hold their value, optional fields None or Some(value).           *)
(***************************************************************************)
RECURSIVE ParseValue(_, _)
ParseValue(T, v) ==
    CASE T.k \in {"str", "lit"} -> v.s
      [] T.k = "num" -> v.n
      [] T.k = "list" -> [i \in DOMAIN v.items |-> ParseValue(T.of, v.items[i])]
      [] T.k = "model" ->
           LET fields == ModelFields(T.cls)
               obj == v.fields
           IN  [f \in DOMAIN fields |->
                  IF fields[f].optional
                    THEN IF f \notin DOMAIN obj \/ obj[f].t = "null"
                           THEN None
                           ELSE Some(ParseValue(fields[f].type, obj[f]))
                    ELSE ParseValue(fields[f].type, obj[f])]

\* ProcurementQueryExtraction.model_validate_json(response_content)
model_validate_json(content) ==
    LET T == TModel("ProcurementQueryExtraction")
        errors == IF content.t = "invalid" THEN {"json_invalid"}
                                           ELSE TypeErrors(T, content)
    IN  IF errors = {}
          THEN [accepted |-> TRUE, errors |-> {}, model |-> Some(ParseValue(T, content))]
          ELSE [accepted |-> FALSE, errors |-> errors, model |-> None]

(***************************************************************************)
(* Calendar dates (datetime.date), as the prompt builder uses them: the    *)
(* proleptic Gregorian ordinal of a date, date - timedelta(days=n), and    *)
(* strftime("%Y-%m-%d"), a text of ten characters.                         *)
(***************************************************************************)
date(y, m, d) == [year |-> y, month |-> m, day |-> d]

IsLeap(y) == (y % 4 = 0 /\ y % 100 # 0) \/ y % 400 = 0

DaysInMonth(y, m) ==
    CASE m \in {1, 3, 5, 7, 8, 10, 12} -> 31
      [] m \in {4, 6, 9, 11} -> 30
      [] OTHER -> IF IsLeap(y) THEN 29 ELSE 28

DaysBeforeYear(y) ==
    LET p == y - 1
    IN  p * 365 + (p \div 4) - (p \div 100) + (p \div 400)

DaysBeforeMonth(y, m) ==
    <<0, 31, 59, 90, 120, 151, 181, 212, 243, 273, 304, 334>>[m]
    + (IF m > 2 /\ IsLeap(y) THEN 1 ELSE 0)

toordinal(d) == DaysBeforeYear(d.year) + DaysBeforeMonth(d.year, d.month) + d.day

\* the date whose ordinal is n: in the year that holds day n, the month for
\* which the day that is left over is a day of that month
fromordinal(n) ==
    CHOOSE dd \in { date(y, m, k - DaysBeforeYear(y) - DaysBeforeMonth(y, m)) :
                      k \in {n},
                      y \in { c \in (n \div 366)..(n \div 365 + 1) :
                                DaysBeforeYear(c) < n /\ n <= DaysBeforeYear(c + 1) },
                      m \in 1..12 } :
        dd.day >= 1 /\ dd.day <= DaysInMonth(dd.year, dd.month)

\* today - timedelta(days=n)
MinusDays(d, n) == fromordinal(toordinal(d) - n)

DigitChar(k) == <<"0", "1", "2", "3", "4", "5", "6", "7", "8", "9">>[k + 1]

ZeroPadded(n, width) ==
    [i \in 1..width |-> DigitChar((n \div (10 ^ (width - i))) % 10)]

strftime(d) ==
    ZeroPadded(d.year, 4) \o <<"-">> \o ZeroPadded(d.month, 2)
      \o <<"-">> \o ZeroPadded(d.day, 2)

(***************************************************************************)
(* The prompt builder (app/models/prompt_builder.py).  A prompt is the     *)
(* record of the values its template interpolates; the rest of the text is *)
(* constant.  `today` stands for what date.today() returned.               *)
(***************************************************************************)
DEFAULT_RECENT_DAYS == 90

settings_recent_days == 90

current_fy_after_october(today) ==
    IF today.month > 10
      THEN [current_fy_start |-> strftime(date(today.year, 10, 1)),
            current_fy_end |-> strftime(date(today.year + 1, 9, 30))]
      ELSE [current_fy_start |-> strftime(date(today.year - 1, 10, 1)),
            current_fy_end |-> strftime(date(today.year, 9, 30))]

\* lines 40-46: the locals current_fy_start and current_fy_end
current_fy(today) ==
    IF today.month >= 10
      THEN [current_fy_start |-> strftime(date(today.year, 10, 1)),
            current_fy_end |-> strftime(date(today.year + 1, 9, 30))]
      ELSE [current_fy_start |-> strftime(date(today.year - 1, 10, 1)),
            current_fy_end |-> strftime(date(today.year, 9, 30))]

\* line 49
two_fy_ago_start(today) ==
    IF today.month >= 10 THEN strftime(date(today.year - 2, 10, 1))
                         ELSE strftime(date(today.year - 3, 10, 1))

build_system_prompt(recent_days_arg, today) ==
    LET recent_days == IF recent_days_arg = None THEN DEFAULT_RECENT_DAYS
                                                 ELSE recent_days_arg[1]
    IN  [today_str |-> strftime(today),
         recent_days |-> recent_days,
         recent_date |-> strftime(MinusDays(today, recent_days)),
         five_years_ago |-> strftime(MinusDays(today, 5 * 365)),
         two_years_ago |-> strftime(MinusDays(today, 2 * 365)),
         two_fy_ago_start |-> two_fy_ago_start(today)]

build_user_prompt(q) ==
    <<"Extract structured query filters from the following question: Query:",
      q,
      "Provide the structured extraction following all the rules.">>

\* the wall-clock date at which the service is first called
CallDate == date(2025, 9, 30)

NoCompositions == [previous |-> None, latest |-> None]

(***************************************************************************)
(* Exceptions of app/core/exceptions.py.                                   *)
(***************************************************************************)
ExtractionError(message, details) ==
    [type |-> "ExtractionError", message |-> message, details |-> details]

AzureOpenAIError(message) ==
    [type |-> "AzureOpenAIError",
     message |-> <<"Azure OpenAI Error: ">> \o message, details |-> None]

retry_temperature_const(t, a) ==
    IF a > 0 THEN t + TemperatureStep ELSE t

(***************************************************************************)
(* extract, line 72: temperature of attempt `a` for base `t`.              *)
(***************************************************************************)
retry_temperature(t, a) ==
    IF a > 0 THEN t + (a * TemperatureStep) ELSE t

should_retry_typo(error_msg) ==
    \/ Contains(error_msg, "extra forbidden")
    \/ Contains(error_msg, "Extra inputs not permitted")

(***************************************************************************)
(* extract, line 118: the retry test of the exception handler.             *)
(***************************************************************************)
should_retry(error_msg) ==
    \/ Contains(error_msg, "extra_forbidden")
    \/ Contains(error_msg, "Extra inputs are not permitted")

after_loop_noelse(le) ==
    IF le # None /\ (\/ Contains(LowerMsg(str(le[1])), "openai")
                     \/ Contains(LowerMsg(str(le[1])), "api"))
      THEN [kind |-> "raise", exc |-> AzureOpenAIError(str(le[1]))]
      ELSE [kind |-> "return_none"]

(***************************************************************************)
(* extract, lines 124-133: what the call does once the loop is over        *)
(* without a return.  Falling off the end of the function returns None.    *)
(***************************************************************************)
after_loop(le) ==
    IF le # None
      THEN LET error_msg == str(le[1])
           IN  IF \/ Contains(LowerMsg(error_msg), "openai")
                  \/ Contains(LowerMsg(error_msg), "api")
                 THEN [kind |-> "raise", exc |-> AzureOpenAIError(error_msg)]
                 ELSE [kind |-> "raise",
                       exc |-> ExtractionError(<<"Failed to extract query">>,
                                               Some(error_msg))]
      ELSE [kind |-> "return_none"]

Finish(le) ==
    LET o == after_loop(le)
    IN  IF o.kind = "raise"
          THEN /\ pc' = "raised"
               /\ raised' = Some(o.exc)
               /\ result' = None
          ELSE /\ pc' = "returned"
               /\ raised' = None
               /\ result' = None

HandleException_offbyone(e) ==
    LET retry == should_retry(str(e))
        next == IF retry THEN attempt + 1 ELSE attempt
    IN  /\ last_error' = Some(e)
        /\ outcomes' = Append(outcomes, [attempt |-> attempt, kind |-> e.origin])
        /\ attempt' = next
        /\ IF retry /\ next < max_retries - 1
             THEN /\ pc' = "loop"
                  /\ UNCHANGED <<result, raised>>
             ELSE Finish(Some(e))

(***************************************************************************)
(* extract, lines 114-122 followed by the loop header: the handler of an   *)
(* exception e raised inside the try block of the current attempt.         *)
(***************************************************************************)
HandleException(e) ==
    LET retry == should_retry(str(e))
        next == IF retry THEN attempt + 1 ELSE attempt
    IN  /\ last_error' = Some(e)
        /\ outcomes' = Append(outcomes, [attempt |-> attempt, kind |-> e.origin])
        /\ attempt' = next
        /\ IF retry /\ next < max_retries
             THEN /\ pc' = "loop"
                  /\ UNCHANGED <<result, raised>>
             ELSE Finish(Some(e))

(***************************************************************************)
(* Threads calling extract on the one service, and the locals of a call    *)
(* that has not started.                                                   *)
(***************************************************************************)
Threads == {"t1", "t2"}

IdleCall ==
    [pc |-> "idle", temperature |-> None, attempt |-> 0, last_error |-> None,
     sent |-> <<>>, hist |-> <<>>, handle |-> None, deployment |-> None,
     result |-> None, raised |-> None]

(***************************************************************************)
(* The state after construction of the service (__init__, lines 19-22).    *)
(***************************************************************************)
Init ==
    /\ pc = "idle"
    /\ client = None
    /\ deployment = None
    /\ query = None
    /\ temperature_arg = None
    /\ temperature = None
    /\ attempt = 0
    /\ last_error = None
    /\ sent = <<>>
    /\ outcomes = <<>>
    /\ extraction = None
    /\ result = None
    /\ raised = None
    /\ raw = None
    /\ verdict = None
    /\ calls = [t \in Threads |-> IdleCall]
    /\ constructed = 0
    /\ clock = CallDate
    /\ elapsed = 0
    /\ composed = NoCompositions

Extract_truthy(q, t) ==
    /\ pc \in {"idle", "returned", "raised"}
    /\ UNCHANGED <<vvars, cvars, pvars>>
    /\ query' = Some(q)
    /\ temperature_arg' = t
    /\ temperature' = Some(IF t = None \/ t[1] = 0 THEN extraction_temperature
                                                  ELSE t[1])
    /\ attempt' = 0
    /\ last_error' = None
    /\ sent' = <<>>
    /\ outcomes' = <<>>
    /\ extraction' = None
    /\ IF 0 < max_retries
         THEN /\ pc' = "loop"
              /\ result' = None
              /\ raised' = None
         ELSE Finish(None)
    /\ UNCHANGED <<client, deployment>>

(***************************************************************************)
(* extract(query, temperature), lines 61-70: entry up to the loop header.  *)
(***************************************************************************)
Extract(q, t) ==
    /\ pc \in {"idle", "returned", "raised"}
    /\ UNCHANGED <<vvars, cvars, pvars>>
    /\ query' = Some(q)
    /\ temperature_arg' = t
    /\ temperature' = Some(IF t = None THEN extraction_temperature ELSE t[1])
    /\ attempt' = 0
    /\ last_error' = None
    /\ sent' = <<>>
    /\ outcomes' = <<>>
    /\ extraction' = None
    /\ IF 0 < max_retries
         THEN /\ pc' = "loop"
              /\ result' = None
              /\ raised' = None
         ELSE Finish(None)
    /\ UNCHANGED <<client, deployment>>

(***************************************************************************)
(* Lines 74 and 31-38: _get_client creates the client and its constructor  *)
(* raises; the exception is handled by the handler of the attempt.         *)
(***************************************************************************)
GetClientFails(e) ==
    /\ pc = "loop"
    /\ UNCHANGED <<vvars, cvars, pvars>>
    /\ client = None
    /\ HandleException(e)
    /\ UNCHANGED <<client, deployment, query, temperature_arg, temperature, sent,
                   extraction>>

SendRequest_fanout ==
    /\ pc \in {"loop", "inflight"}
    /\ UNCHANGED <<vvars, cvars, pvars>>
    /\ client' = IF client = None THEN Some("AzureOpenAI") ELSE client
    /\ deployment' = IF client = None THEN Some(azure_openai_deployment)
                                      ELSE deployment
    /\ sent' = Append(sent, [attempt |-> attempt,
                             temperature |-> retry_temperature(temperature[1], attempt),
                             model |-> deployment',
                             query |-> query[1],
                             system |-> build_system_prompt(Some(settings_recent_days),
                                                            clock),
                             user |-> build_user_prompt(query[1])])
    /\ pc' = "inflight"
    /\ UNCHANGED <<query, temperature_arg, temperature, attempt, last_error,
                   outcomes, extraction, result, raised>>

(***************************************************************************)
(* Lines 72-100: the attempt computes its temperature, gets (or creates)   *)
(* the client and hands the request to the inference collaborator.         *)
(***************************************************************************)
SendRequest ==
    /\ pc = "loop"
    /\ UNCHANGED <<vvars, cvars, pvars>>
    /\ client' = IF client = None THEN Some("AzureOpenAI") ELSE client
    /\ deployment' = IF client = None THEN Some(azure_openai_deployment)
                                      ELSE deployment
    /\ sent' = Append(sent, [attempt |-> attempt,
                             temperature |-> retry_temperature(temperature[1], attempt),
                             model |-> deployment',
                             query |-> query[1],
                             system |-> build_system_prompt(Some(settings_recent_days),
                                                            clock),
                             user |-> build_user_prompt(query[1])])
    /\ pc' = "inflight"
    /\ UNCHANGED <<query, temperature_arg, temperature, attempt, last_error,
                   outcomes, extraction, result, raised>>

(***************************************************************************)
(* Line 85 raises: the collaborator call fails (transport / provider).     *)
(***************************************************************************)
InferenceRaises(e) ==
    /\ pc = "inflight"
    /\ UNCHANGED <<vvars, cvars, pvars>>
    /\ HandleException(e)
    /\ UNCHANGED <<client, deployment, query, temperature_arg, temperature, sent,
                   extraction>>

ValidationFails_norequeue(e) ==
    /\ pc = "inflight"
    /\ UNCHANGED <<vvars, cvars, pvars>>
    /\ last_error' = Some(e)
    /\ outcomes' = Append(outcomes, [attempt |-> attempt, kind |-> e.origin])
    /\ pc' = "handler"
    /\ UNCHANGED <<attempt, result, raised>>
    /\ UNCHANGED <<client, deployment, query, temperature_arg, temperature, sent,
                   extraction>>

(***************************************************************************)
(* Lines 103-107 raise: the returned text does not parse or validate.      *)
(***************************************************************************)
ValidationFails(e) ==
    /\ pc = "inflight"
    /\ UNCHANGED <<vvars, cvars, pvars>>
    /\ HandleException(e)
    /\ UNCHANGED <<client, deployment, query, temperature_arg, temperature, sent,
                   extraction>>

ValidationSucceeds_noreturn(x) ==
    /\ pc = "inflight"
    /\ UNCHANGED <<vvars, cvars, pvars>>
    /\ extraction' = Some(x)
    /\ outcomes' = Append(outcomes, [attempt |-> attempt, kind |-> "valid"])
    /\ result' = Some(extraction_to_dict(x))
    /\ attempt' = attempt + 1
    /\ IF attempt + 1 < max_retries
         THEN pc' = "loop" /\ raised' = None
         ELSE pc' = "returned" /\ raised' = None
    /\ UNCHANGED <<client, deployment, query, temperature_arg, temperature,
                   last_error, sent>>

(***************************************************************************)
(* Lines 103-112: the returned text validates as x; the canonical form is  *)
(* returned.                                                               *)
(***************************************************************************)
ValidationSucceeds(x) ==
    /\ pc = "inflight"
    /\ UNCHANGED <<vvars, cvars, pvars>>
    /\ extraction' = Some(x)
    /\ outcomes' = Append(outcomes, [attempt |-> attempt, kind |-> "valid"])
    /\ result' = Some(extraction_to_dict(x))
    /\ pc' = "returned"
    /\ UNCHANGED <<client, deployment, query, temperature_arg, temperature,
                   attempt, last_error, sent, raised>>

Next ==
    \/ \E q \in Queries, t \in TemperatureArgs : Extract(q, t)
    \/ \E e \in ClientErrors : GetClientFails(e)
    \/ SendRequest
    \/ \E e \in ProviderErrors : InferenceRaises(e)
    \/ \E e \in ValidationErrors : ValidationFails(e)
    \/ \E x \in ProcurementQueryExtraction : ValidationSucceeds(x)

Spec == Init /\ [][Next]_vars

(***************************************************************************)
(* Helpers of the properties.                                              *)
(***************************************************************************)
Terminated == pc \in {"returned", "raised"}

LastOutcome == outcomes[Len(outcomes)]

AllShape(k) == \A i \in 1..k : outcomes[i].kind = "shape"

\* C1: an extract call never makes more than 5 attempts (inference
\* invocations), whatever the outcomes of the attempts.
C1_AtMostFiveAttempts ==
    /\ Len(sent) <= 5
    /\ \A i \in DOMAIN sent : sent[i].attempt \in 0..4
    /\ Len(outcomes) <= 5

C1_Witness ==
    /\ Len(sent) = 5
    /\ pc = "raised"

\* C2: when attempt a < 4 fails with a closedness violation the error becomes
\* the last error, the call does not terminate, and the next step of the call
\* is the inference call of attempt a + 1.
C2_ShapeViolationRetried ==
    [][ /\ ( /\ pc = "inflight"
             /\ attempt < 4
             /\ Len(outcomes') = Len(outcomes) + 1
             /\ outcomes'[Len(outcomes')].kind = "shape" )
          => ( /\ last_error' # None
               /\ last_error'[1].origin = "shape"
               /\ pc' = "loop"
               /\ attempt' = attempt + 1
               /\ result' = None
               /\ raised' = None )
        /\ ( /\ pc = "loop"
             /\ Len(outcomes) > 0
             /\ LastOutcome.kind = "shape" )
          => ( /\ pc' = "inflight"
               /\ Len(sent') = Len(sent) + 1
               /\ sent'[Len(sent')].attempt = LastOutcome.attempt + 1 )
      ]_vars

C2_Witness ==
    /\ pc = "inflight"
    /\ attempt = 4
    /\ Len(outcomes) = 4
    /\ LastOutcome.kind = "shape"
    /\ LastOutcome.attempt = 3
    /\ last_error # None
    /\ last_error[1].origin = "shape"

\* C3 (as claimed): after an attempt that failed with anything other than a
\* closedness violation, no further inference call is made in the call.
C3_NoCallAfterOtherFailure ==
    \A i \in DOMAIN outcomes :
        outcomes[i].kind \in {"provider", "validation", "client"}
          => \A j \in DOMAIN sent : sent[j].attempt <= outcomes[i].attempt

\* C4: the temperature sent on attempt a is the base for a = 0 and
\* base + 0.05 * a for a >= 1; temperatures of successive attempts of one
\* call strictly increase.
C4_TemperatureSchedule ==
    /\ \A i \in DOMAIN sent :
          sent[i].temperature =
             IF sent[i].attempt = 0 THEN temperature[1]
                                    ELSE temperature[1] + 5 * sent[i].attempt
    /\ \A i, j \in DOMAIN sent :
          i < j => /\ sent[i].attempt < sent[j].attempt
                   /\ sent[i].temperature < sent[j].temperature

C4_Witness ==
    /\ Len(sent) = 5
    /\ sent[1].temperature = temperature[1]
    /\ sent[5].temperature = temperature[1] + 20

\* C5: k < 5 closedness violations followed by a valid shape: the call is
\* still running after each violation, succeeds with exactly k + 1 attempts,
\* and the last attempt's temperature is base + 0.05 * k (k = 2: 3 attempts,
\* base + 0.10).
C5_RetryThenSuccess ==
    /\ \A k \in 1..4 :
          (Len(outcomes) = k /\ AllShape(k)) => pc \in {"loop", "inflight"}
    /\ \A k \in 0..4 :
          (Len(outcomes) = k + 1 /\ AllShape(k) /\ outcomes[k + 1].kind = "valid")
            => /\ pc = "returned"
               /\ result # None
               /\ raised = None
               /\ Len(sent) = k + 1
               /\ sent[k + 1].temperature = temperature[1] + 5 * k
    /\ (Len(outcomes) = 3 /\ AllShape(2) /\ outcomes[3].kind = "valid")
          => (Len(sent) = 3 /\ sent[3].temperature = temperature[1] + 10)

C5_Witness ==
    /\ Len(outcomes) = 3
    /\ AllShape(2)
    /\ outcomes[3].kind = "valid"
    /\ pc = "returned"
    /\ Len(sent) = 3
    /\ sent[3].temperature = temperature[1] + 10

\* C6 (as claimed): closedness violations on every attempt: exactly 5
\* attempts, then the generic ExtractionError, whatever the violating output.
C6_ExhaustionIsGeneric ==
    (Len(outcomes) = 5 /\ AllShape(5))
      => /\ Len(sent) = 5
         /\ pc = "raised"
         /\ raised[1].type = "ExtractionError"

\* C7 (as claimed): a transport error on the first call: AzureOpenAIError
\* after exactly 1 attempt, whatever the message of the error.
C7_TransportErrorIsProviderFailure ==
    (Len(outcomes) >= 1 /\ outcomes[1].kind = "provider")
      => /\ Len(sent) = 1
         /\ pc = "raised"
         /\ raised[1].type = "AzureOpenAIError"

\* C8 (as claimed): a failed call raises the provider-failure kind exactly
\* when its last recorded error came from the inference transport/provider.
C8_KindFollowsOrigin ==
    pc = "raised"
      => ( raised[1].type = "AzureOpenAIError"
             <=> last_error[1].origin \in {"provider", "client"} )

\* C9: a terminated call has exactly one of three outcomes: the canonical
\* form of a validated extraction, AzureOpenAIError, or ExtractionError; it
\* never returns None and never raises anything else.
C9_ThreeOutcomes ==
    /\ pc \in {"idle", "loop", "inflight", "returned", "raised"}
    /\ pc = "returned"
         => /\ raised = None
            /\ extraction # None
            /\ extraction[1] \in ProcurementQueryExtraction
            /\ result = Some(extraction_to_dict(extraction[1]))
    /\ pc = "raised"
         => /\ result = None
            /\ raised # None
            /\ raised[1].type \in {"AzureOpenAIError", "ExtractionError"}
    /\ ~Terminated => (result = None /\ raised = None)

C9_Witness ==
    /\ pc = "raised"
    /\ raised # None
    /\ raised[1].type = "ExtractionError"
    /\ Len(outcomes) = 5

\* C10: the first attempt whose output validates ends the loop: it is the
\* last attempt of the call, no request follows it, no earlier error is
\* surfaced, and the value returned is the canonical form of its extraction.
C10_FirstValidEndsLoop ==
    \A i \in DOMAIN outcomes :
        outcomes[i].kind = "valid"
          => /\ i = Len(outcomes)
             /\ pc = "returned"
             /\ raised = None
             /\ extraction # None
             /\ result = Some(extraction_to_dict(extraction[1]))
             /\ Len(sent) = Len(outcomes)
             /\ \A j \in DOMAIN sent : sent[j].attempt <= outcomes[i].attempt

C10_Witness ==
    /\ pc = "returned"
    /\ Len(outcomes) = 3
    /\ LastOutcome.kind = "valid"
    /\ last_error # None
    /\ raised = None
    /\ Len(extraction[1].filter_groups) = 1

(***************************************************************************)
(* Response texts of the collaborator: well-shaped payloads and the        *)
(* malformations of each nesting level.                                    *)
(***************************************************************************)
RawCodeLevels ==
    { O([code |-> S("R"), description |-> S("Support services")]),
      O([code |-> S("R"), description |-> S("Support services"), level |-> N(1)]),
      O([code |-> S("R")]) }

RawDateFilters ==
    { O([operator |-> S("BETWEEN"), start_date |-> S("2024-01-01"),
         end_date |-> S("2024-12-31")]),
      O([operator |-> S(">="), value |-> S("2024-01-01"), recent_days |-> N(90)]),
      O([operator |-> S(">="), value |-> S("2024-01-01"), recent_days |-> N(0)]),
      O([operator |-> S("BETWEEN"), value |-> S("2024-01-01")]),
      O([operator |-> S("BETWEEN"), start_date |-> S("2024-01-01"),
         end_date |-> S("2024-12-31"), value |-> S("2024-06-30")]),
      O([operator |-> S("=")]),
      O([operator |-> S("<"), value |-> S("2024-01-01"),
         start_date |-> S("2023-01-01"), end_date |-> S("2024-01-01")]),
      O([operator |-> S(">="), value |-> S("2024-01-01"), days |-> N(90)]),
      O([operator |-> S("LIKE"), value |-> S("2024-01-01")]) }

RawAmountFilters ==
    { O([operator |-> S("BETWEEN"), min_value |-> N(1000), max_value |-> N(5000)]),
      O([operator |-> S(">"), value |-> N(1000)]),
      O([operator |-> S("BETWEEN"), min_value |-> N(1000)]),
      O([operator |-> S(">"), value |-> N(1000), currency |-> S("USD")]) }

RawTextFilters ==
    { O([operator |-> S("="), value |-> S("Acme")]),
      O([operator |-> S("IN"), values |-> L(<<S("Acme"), S("Initech")>>)]),
      O([operator |-> S("LIKE")]),
      O([operator |-> S("IN"), values |-> L(<<>>)]),
      O([operator |-> S("IN"), value |-> S("Acme")]),
      O([operator |-> S("="), value |-> S("Acme"), pattern |-> S("%")]) }

RawNAICSPlain == O([naics_code |-> L(<<S("541")>>)])

RawPSCPlain == O([psc_code |-> L(<<S("R425")>>)])

RawPSCInfos ==
    { RawPSCPlain,
      O([description |-> S("support"), industry_code |-> RawNAICSPlain]) }
    \cup { O([description |-> S("support"), level1 |-> c]) : c \in RawCodeLevels }

RawNAICSInfos ==
    { RawNAICSPlain,
      O([description |-> S("services"), product_service_code |-> RawPSCPlain]),
      O([naics_code |-> S("541")]) }

RawSetAsides ==
    { O([description |-> S("HUBZone"), code |-> L(<<S("E")>>)]),
      O([description |-> S("HUBZone"), codes |-> L(<<S("E")>>)]) }

RawFilterGroups ==
    { EmptyObject,
      O([product_service_code |-> RawPSCPlain, industry_code |-> RawNAICSPlain]),
      O([vendor |-> O([operator |-> S("="), value |-> S("Acme")]),
         naics_code |-> L(<<S("541")>>)]) }
    \cup { O([StartDate |-> d]) : d \in RawDateFilters }
    \cup { O([EndDate |-> Null]),
           O([EndDate |-> O([operator |-> S("<="), value |-> S("2024-12-31"),
                             recent_days |-> N(0)])]),
           O([StartDate |-> O([operator |-> S(">="), value |-> S("2024-10-01"),
                               recent_days |-> N(90)]),
              EndDate |-> O([operator |-> S("<="), value |-> S("2024-12-31"),
                             recent_days |-> N(90)]),
              total_amount |-> O([operator |-> S(">"), value |-> N(1000)]),
              subdoctype |-> O([operator |-> S("="), value |-> S("Contract")])]) }
    \cup { O([funded_amount |-> a]) : a \in RawAmountFilters }
    \cup { O([vendor |-> x]) : x \in RawTextFilters }
    \cup { O([product_service_code |-> i]) : i \in RawPSCInfos }
    \cup { O([industry_code |-> i]) : i \in RawNAICSInfos }
    \cup { O([set_aside |-> a]) : a \in RawSetAsides }

\* groups that follow the first group of a list
RawTailGroups ==
    { EmptyObject,
      O([vendor |-> O([operator |-> S("="), value |-> S("Acme")])]),
      O([industry_code |-> O([description |-> S("services"),
                              product_service_code |-> RawPSCPlain])]) }

\* the lists of at most n groups
RawGroupLists(n) ==
    {<<>>} \cup { <<g>> \o rest : g \in RawFilterGroups,
                                  rest \in SeqUpTo(RawTailGroups, n - 1) }

\* the root object around a list of groups
RawRoots(groups) ==
    { O([filter_groups |-> L(groups), original_query |-> S("q1")]),
      O([filter_groups |-> L(groups), original_query |-> S("q1"),
         group_operator_between_groups |-> Null]),
      O([filter_groups |-> L(groups), original_query |-> S("q1"),
         group_operator_between_groups |-> S("OR")]),
      O([filter_groups |-> L(groups), original_query |-> S("q1"),
         group_operator_between_groups |-> S("XOR")]),
      O([filter_groups |-> L(groups)]),
      O([filter_groups |-> L(groups), original_query |-> S("q1"),
         confidence |-> N(1)]) }

RawOutputs ==
    { NotJson, O([original_query |-> S("q1")]) }
    \cup UNION { RawRoots(groups) : groups \in RawGroupLists(MaxRawGroups) }

(***************************************************************************)
(* Validation of one response text (extract, lines 103-107).               *)
(***************************************************************************)
InitValidate ==
    /\ pc = "idle"
    /\ client = None
    /\ deployment = None
    /\ query = None
    /\ temperature_arg = None
    /\ temperature = None
    /\ attempt = 0
    /\ last_error = None
    /\ sent = <<>>
    /\ outcomes = <<>>
    /\ extraction = None
    /\ result = None
    /\ raised = None
    /\ raw \in { Some(r) : r \in RawOutputs }
    /\ verdict = None
    /\ calls = [t \in Threads |-> IdleCall]
    /\ constructed = 0
    /\ clock = CallDate
    /\ elapsed = 0
    /\ composed = NoCompositions

Validate ==
    /\ raw # None
    /\ verdict = None
    /\ verdict' = Some(model_validate_json(raw[1]))
    /\ UNCHANGED <<raw, svars, client, deployment, cvars, pvars>>

\* lines 107-111: the accepted model becomes `extraction` and is converted
Canonicalize ==
    /\ verdict # None
    /\ verdict[1].accepted
    /\ extraction' = verdict[1].model
    /\ result' = Some(extraction_to_dict(verdict[1].model[1]))
    /\ UNCHANGED <<pc, query, temperature_arg, temperature, attempt, last_error,
                   sent, outcomes, raised, client, deployment, vvars, cvars, pvars>>

NextValidate == Validate \/ Canonicalize

SpecValidate == InitValidate /\ [][NextValidate]_vars

(***************************************************************************)
(* extract called from several threads on the one service.  The locals of  *)
(* the call of thread t are calls[t]; self._client and self._deployment    *)
(* are shared.  _get_client (lines 31-40) takes no lock, so its statements *)
(* interleave.                                                             *)
(***************************************************************************)
ThreadTemperatureArgs == {None, Some(0)}

ThreadErrors ==
    { e \in ValidationErrors : e.msg = ValidationErrorStr({"extra_forbidden"}, "x") }
    \cup { e \in ProviderErrors : e.msg \in { <<"Connection error.">>,
                                              <<"Error code: 401", "API">> } }

ThreadExtractions ==
    { x \in ProcurementQueryExtraction :
        x.filter_groups = <<>> /\ x.group_operator_between_groups = None }

CallAfterException_stale(c, e) ==
    LET retry == should_retry(str(e))
        next == IF retry THEN c.attempt + 1 ELSE c.attempt
        goon == retry /\ next < max_retries
        o == after_loop(c.last_error)
    IN  [c EXCEPT !.last_error = Some(e),
                  !.hist = Append(@, e),
                  !.attempt = next,
                  !.pc = IF goon THEN "loop"
                         ELSE IF o.kind = "raise" THEN "raised" ELSE "returned",
                  !.raised = IF ~goon /\ o.kind = "raise" THEN Some(o.exc) ELSE @]

\* lines 114-133 on the locals c of one call: the handler of exception e
CallAfterException(c, e) ==
    LET retry == should_retry(str(e))
        next == IF retry THEN c.attempt + 1 ELSE c.attempt
        goon == retry /\ next < max_retries
        o == after_loop(Some(e))
    IN  [c EXCEPT !.last_error = Some(e),
                  !.hist = Append(@, e),
                  !.attempt = next,
                  !.pc = IF goon THEN "loop"
                         ELSE IF o.kind = "raise" THEN "raised" ELSE "returned",
                  !.raised = IF ~goon /\ o.kind = "raise" THEN Some(o.exc) ELSE @]

\* lines 61-70: entry of extract on thread t
TExtract(t, temp) ==
    /\ calls[t].pc = "idle"
    /\ calls' = [calls EXCEPT ![t] =
                   [IdleCall EXCEPT
                      !.pc = "loop",
                      !.temperature = Some(IF temp = None THEN extraction_temperature
                                                          ELSE temp[1])]]
    /\ UNCHANGED <<client, deployment, constructed, svars, vvars, pvars>>

\* line 31: if self._client is None
TCheckClient(t) ==
    /\ calls[t].pc = "loop"
    /\ calls' = [calls EXCEPT ![t].pc =
                   IF client = None THEN "construct" ELSE "have_client"]
    /\ UNCHANGED <<client, deployment, constructed, svars, vvars, pvars>>

\* lines 32-37: self._client = AzureOpenAI(...)
TConstruct(t) ==
    /\ calls[t].pc = "construct"
    /\ constructed' = constructed + 1
    /\ client' = Some(constructed + 1)
    /\ calls' = [calls EXCEPT ![t].pc = "set_deployment"]
    /\ UNCHANGED <<deployment, svars, vvars, pvars>>

\* lines 32-37 raise: the constructor fails
TConstructFails(t, e) ==
    /\ calls[t].pc = "construct"
    /\ calls' = [calls EXCEPT ![t] = CallAfterException(calls[t], e)]
    /\ UNCHANGED <<client, deployment, constructed, svars, vvars, pvars>>

\* line 38: self._deployment = settings.azure_openai_deployment
TSetDeployment(t) ==
    /\ calls[t].pc = "set_deployment"
    /\ deployment' = Some(azure_openai_deployment)
    /\ calls' = [calls EXCEPT ![t].pc = "have_client"]
    /\ UNCHANGED <<client, constructed, svars, vvars, pvars>>

\* line 40 and lines 72-100: _get_client returns the shared pair and the
\* request of the attempt is handed to the collaborator
TSendRequest(t) ==
    /\ calls[t].pc = "have_client"
    /\ calls' = [calls EXCEPT
                   ![t].pc = "inflight",
                   ![t].handle = client,
                   ![t].deployment = deployment,
                   ![t].sent = Append(@, [attempt |-> calls[t].attempt,
                                          temperature |->
                                            retry_temperature(calls[t].temperature[1],
                                                              calls[t].attempt),
                                          model |-> deployment])]
    /\ UNCHANGED <<client, deployment, constructed, svars, vvars, pvars>>

TAttemptFails_shared(t, e) ==
    /\ calls[t].pc = "inflight"
    /\ calls' = [u \in Threads |->
                   IF u = t THEN CallAfterException(calls[t], e)
                            ELSE [calls[u] EXCEPT !.last_error = Some(e)]]
    /\ UNCHANGED <<client, deployment, constructed, svars, vvars, pvars>>

\* lines 85-107 raise on thread t: provider failure or validation failure
TAttemptFails(t, e) ==
    /\ calls[t].pc = "inflight"
    /\ calls' = [calls EXCEPT ![t] = CallAfterException(calls[t], e)]
    /\ UNCHANGED <<client, deployment, constructed, svars, vvars, pvars>>

\* lines 103-112 on thread t: the output validates as x
TAttemptSucceeds(t, x) ==
    /\ calls[t].pc = "inflight"
    /\ calls' = [calls EXCEPT
                   ![t].pc = "returned",
                   ![t].hist = Append(@, [origin |-> "valid", msg |-> <<x.original_query>>]),
                   ![t].result = Some(extraction_to_dict(x))]
    /\ UNCHANGED <<client, deployment, constructed, svars, vvars, pvars>>

NextThreads ==
    \E t \in Threads :
        \/ \E temp \in ThreadTemperatureArgs : TExtract(t, temp)
        \/ TCheckClient(t)
        \/ TConstruct(t)
        \/ \E e \in ClientErrors : TConstructFails(t, e)
        \/ TSetDeployment(t)
        \/ TSendRequest(t)
        \/ \E e \in ThreadErrors : TAttemptFails(t, e)
        \/ \E x \in ThreadExtractions : TAttemptSucceeds(t, x)

SpecThreads == Init /\ [][NextThreads]_vars

(***************************************************************************)
(* The prompt builder on its own: the two prompts are composed for a query *)
(* and a recent-window length (extract, lines 77-78) at the wall-clock     *)
(* date of the moment, and the wall clock advances.                        *)
(***************************************************************************)
Years == 2024..(2024 + MaxYears - 1)

Dates ==
    { dd \in { date(y, m, d) : y \in Years, m \in 1..12, d \in 1..31 } :
        dd.day <= DaysInMonth(dd.year, dd.month) }

\* arguments of a composition: the query and the recent-window length
ComposeArgs ==
    { [query |-> "q1", recent_days |-> None],
      [query |-> "q1", recent_days |-> Some(30)],
      [query |-> "q2", recent_days |-> Some(30)] }

\* what one composition computes: the two prompts, and the fiscal-year
\* locals of build_system_prompt
Composition(q, recent_days_arg, today) ==
    [query |-> q,
     recent_days |-> recent_days_arg,
     system |-> build_system_prompt(recent_days_arg, today),
     user |-> build_user_prompt(q),
     locals |-> current_fy(today)]

InitCompose ==
    /\ pc = "idle"
    /\ client = None
    /\ deployment = None
    /\ query = None
    /\ temperature_arg = None
    /\ temperature = None
    /\ attempt = 0
    /\ last_error = None
    /\ sent = <<>>
    /\ outcomes = <<>>
    /\ extraction = None
    /\ result = None
    /\ raised = None
    /\ raw = None
    /\ verdict = None
    /\ calls = [t \in Threads |-> IdleCall]
    /\ constructed = 0
    /\ clock \in Dates
    /\ elapsed = 0
    /\ composed = NoCompositions

Compose(q, recent_days_arg) ==
    /\ composed' = [previous |-> composed.latest,
                    latest |-> Some(Composition(q, recent_days_arg, clock))]
    /\ UNCHANGED <<clock, elapsed, svars, client, deployment, vvars, cvars>>

\* midnight: date.today() returns the next day from now on
DayPasses ==
    /\ elapsed < MaxDays
    /\ clock' = fromordinal(toordinal(clock) + 1)
    /\ elapsed' = elapsed + 1
    /\ UNCHANGED <<composed, svars, client, deployment, vvars, cvars>>

NextCompose ==
    \/ \E a \in ComposeArgs : Compose(a.query, a.recent_days)
    \/ DayPasses

SpecCompose == InitCompose /\ [][NextCompose]_vars

\* inference calls of the running extract call that were answered (returned
\* or raised), and those still in flight
Answered == Cardinality({ i \in DOMAIN outcomes : outcomes[i].kind # "client" })

InFlight == Len(sent) - Answered

\* C11: the attempts of one extract call are strictly sequential: the
\* inference call of an attempt starts only after the call of the previous
\* attempt has completed or failed, so at most one call is in flight.
C11_SequentialAttempts ==
    /\ InFlight \in {0, 1}
    /\ InFlight = 1 <=> pc = "inflight"
    /\ \A j \in 2..Len(sent) :
          \E i \in DOMAIN outcomes :
              /\ outcomes[i].attempt = sent[j - 1].attempt
              /\ outcomes[i].kind # "client"

C11_Witness ==
    /\ pc = "inflight"
    /\ Len(sent) = 3
    /\ Len(outcomes) = 2
    /\ InFlight = 1

\* C16 (as claimed): when extract returns an extraction with exactly one
\* filter group, the group combinator of the canonical output is null.
C16_SingleGroupNullCombinator ==
    (pc = "returned" /\ result # None /\ Len(extraction[1].filter_groups) = 1)
      => result[1].group_operator_between_groups = None

(***************************************************************************)
(* Helpers of the properties of validation, stated on the response text.   *)
(***************************************************************************)
Validated == verdict # None

Accepted == verdict # None /\ verdict[1].accepted

HasField(v, f) == v.t = "obj" /\ f \in DOMAIN v.fields

RawGroups(r) ==
    IF HasField(r, "filter_groups") /\ r.fields.filter_groups.t = "list"
      THEN r.fields.filter_groups.items
      ELSE <<>>

RawCombinatorNull(r) ==
    \/ ~HasField(r, "group_operator_between_groups")
    \/ r.fields.group_operator_between_groups.t = "null"

\* the classes at whose level the tree v holds a field that the class does
\* not declare
RECURSIVE UndeclaredLevels(_, _)
UndeclaredLevels(T, v) ==
    CASE T.k = "list" /\ v.t = "list" ->
           UNION { UndeclaredLevels(T.of, v.items[i]) : i \in DOMAIN v.items }
      [] T.k = "model" /\ v.t = "obj" ->
           LET declared == DOMAIN ModelFields(T.cls)
           IN  (IF DOMAIN v.fields \ declared # {} THEN {T.cls} ELSE {})
               \cup UNION { UndeclaredLevels(ModelFields(T.cls)[f].type, v.fields[f]) :
                            f \in declared \cap DOMAIN v.fields }
      [] OTHER -> {}

RawUndeclared == UndeclaredLevels(TModel("ProcurementQueryExtraction"), raw[1])

\* C14: validation rejects every input that holds an undeclared field, at
\* whatever nesting level the field is (root, group, date/amount/text filter,
\* classification info, code level, set-aside), and reports extra_forbidden.
C14_ClosedAtEveryLevel ==
    (Validated /\ RawUndeclared # {})
      => /\ ~verdict[1].accepted
         /\ "extra_forbidden" \in verdict[1].errors

C14_Witness ==
    /\ Validated
    /\ RawUndeclared = {"CodeLevel"}
    /\ verdict[1].errors = {"extra_forbidden"}

\* one classification payload nested as a field inside the other's payload
NestedSibling(r) ==
    \E i \in DOMAIN RawGroups(r) :
        LET g == RawGroups(r)[i]
        IN  \/ /\ HasField(g, "product_service_code")
               /\ HasField(g.fields.product_service_code, "industry_code")
            \/ /\ HasField(g, "industry_code")
               /\ HasField(g.fields.industry_code, "product_service_code")

\* C15: an input with industry_code inside product_service_code (or the
\* reverse) is always rejected: no accepted FilterGroup holds one taxonomy's
\* payload inside the other's.
C15_SiblingsNeverNested ==
    (Validated /\ NestedSibling(raw[1])) => ~verdict[1].accepted

C15_Witness ==
    /\ Validated
    /\ NestedSibling(raw[1])
    /\ Len(RawGroups(raw[1])) = 1
    /\ HasField(RawGroups(raw[1])[1], "industry_code")
    /\ verdict[1].errors = {"extra_forbidden"}

\* C17 (as claimed): an output with more than one filter group and a null
\* or absent group combinator is rejected.
C17_MultiGroupNeedsCombinator ==
    (Validated /\ Len(RawGroups(raw[1])) > 1 /\ RawCombinatorNull(raw[1]))
      => ~verdict[1].accepted

\* C18 (as claimed): an accepted extraction has a non-empty filter_groups
\* list.
C18_GroupsNonEmpty ==
    Accepted => Len(verdict[1].model[1].filter_groups) >= 1

RangeSlots ==
    [StartDate |-> [low |-> "start_date", high |-> "end_date"],
     EndDate |-> [low |-> "start_date", high |-> "end_date"],
     funded_amount |-> [low |-> "min_value", high |-> "max_value"],
     total_amount |-> [low |-> "min_value", high |-> "max_value"]]

RangeInvariant(f, low, high) ==
    IF f.operator = "BETWEEN"
      THEN f[low] # None /\ f[high] # None /\ f.value = None
      ELSE f.value # None /\ f[low] = None /\ f[high] = None

\* C19 (as claimed): in an accepted extraction every date or amount filter
\* has operator BETWEEN exactly when both bounds are present and value is
\* absent, and otherwise value present and both bounds absent.
C19_RangeFilterInvariant ==
    Accepted =>
      \A i \in DOMAIN verdict[1].model[1].filter_groups :
        \A slot \in DOMAIN RangeSlots :
          LET o == verdict[1].model[1].filter_groups[i][slot]
          IN  o # None =>
                RangeInvariant(o[1], RangeSlots[slot].low, RangeSlots[slot].high)

\* C20 (as claimed): in an accepted extraction every text filter with
\* operator = or LIKE has a value, and every text filter with operator IN has
\* a non-empty values list.
C20_TextFilterInvariant ==
    Accepted =>
      \A i \in DOMAIN verdict[1].model[1].filter_groups :
        \A slot \in {"vendor", "subdoctype"} :
          LET o == verdict[1].model[1].filter_groups[i][slot]
          IN  o # None =>
                /\ o[1].operator \in {"=", "LIKE"} => o[1].value # None
                /\ o[1].operator = "IN" =>
                      (o[1].values # None /\ Len(o[1].values[1]) > 0)

\* C12 (as claimed): whatever the interleaving of concurrent extract calls,
\* the client is constructed at most once and every call uses that handle.
C12_ClientConstructedOnce ==
    /\ constructed <= 1
    /\ \A t \in Threads : calls[t].handle # None => calls[t].handle = Some(1)

CallTerminated(c) == c.pc \in {"returned", "raised"}

\* the temperatures of the requests two calls have both sent agree
SameSchedule(c, d) ==
    \A i \in DOMAIN c.sent \cap DOMAIN d.sent :
        /\ c.sent[i].attempt = d.sent[i].attempt
        /\ c.sent[i].temperature = d.sent[i].temperature

\* C13: concurrent extract calls are independent: a step of one call leaves
\* the attempt counter, last error, requests and outcome of every other call
\* untouched, and two calls with the same temperature argument and the same
\* inference outcomes have the same attempt counter, last error, temperature
\* schedule and outcome, whatever the interleaving.
C13_CallsIndependent ==
    /\ [](\A t, u \in Threads :
            ( /\ calls[t].temperature = calls[u].temperature
              /\ calls[t].hist = calls[u].hist )
              => /\ calls[t].attempt = calls[u].attempt
                 /\ calls[t].last_error = calls[u].last_error
                 /\ calls[t].result = calls[u].result
                 /\ calls[t].raised = calls[u].raised
                 /\ CallTerminated(calls[t]) <=> CallTerminated(calls[u])
                 /\ SameSchedule(calls[t], calls[u]))
    /\ [][\A t \in Threads :
            calls'[t].pc = calls[t].pc => calls'[t] = calls[t]]_vars

C13_Witness ==
    /\ calls["t1"].pc = "raised"
    /\ Len(calls["t1"].hist) = 5
    /\ Len(calls["t1"].sent) = 5
    /\ calls["t2"].pc = "returned"
    /\ Len(calls["t2"].sent) = 1
    /\ calls["t2"].last_error = None
    /\ calls["t1"].temperature # calls["t2"].temperature

(***************************************************************************)
(* Helpers of the properties of canonicalization (validation view).        *)
(***************************************************************************)
Canonicalized == extraction # None /\ result # None

Populated(group) == { s \in DOMAIN group : group[s] # None }

\* C21: the keys of the canonical map of a validated FilterGroup are exactly
\* the slots populated in the group (none invented, none dropped, no
\* placeholder for an unpopulated slot), and canonicalizing the group again
\* yields the same key set.
C21_KeysArePopulatedSlots ==
    Canonicalized =>
      \A i \in DOMAIN extraction[1].filter_groups :
        LET group == extraction[1].filter_groups[i]
            canon == result[1].filter_groups[i]
        IN  /\ DOMAIN canon = Populated(group)
            /\ DOMAIN canon \subseteq DOMAIN ModelFields("FilterGroup")
            /\ \A s \in DOMAIN canon : "null" \notin DOMAIN canon[s]
            /\ DOMAIN convert_filter_group(group) = DOMAIN canon

C21_Witness ==
    /\ Canonicalized
    /\ Len(result[1].filter_groups) = 2
    /\ DOMAIN result[1].filter_groups[1]
         = {"StartDate", "EndDate", "total_amount", "subdoctype"}
    /\ DOMAIN result[1].filter_groups[2] = {}

\* C28 (as claimed): in the canonical form of a populated StartDate or EndDate
\* filter, recent_days is present exactly when the validated filter's
\* recent_days is non-null, and then carries that value (0 included).
C28_RecentDaysKept ==
    Canonicalized =>
      \A i \in DOMAIN extraction[1].filter_groups :
        \A slot \in {"StartDate", "EndDate"} :
          LET o == extraction[1].filter_groups[i][slot]
              canon == result[1].filter_groups[i]
          IN  o # None =>
                /\ "recent_days" \in DOMAIN canon[slot] <=> o[1].recent_days # None
                /\ "recent_days" \in DOMAIN canon[slot]
                     => canon[slot].recent_days = o[1].recent_days

C26_BaseTemperature ==
    pc # "idle" =>
      /\ temperature_arg = None => temperature = Some(extraction_temperature)
      /\ temperature_arg # None => temperature = temperature_arg
      /\ \A i \in DOMAIN sent :
            sent[i].temperature - TemperatureStep * sent[i].attempt
              = (IF temperature_arg = None THEN extraction_temperature
                                           ELSE temperature_arg[1])

C26_Witness ==
    /\ temperature_arg = Some(0)
    /\ temperature = Some(0)
    /\ Len(sent) = 3
    /\ sent[1].temperature = 0
    /\ sent[3].temperature = 10

\* C24: when extract fails with the generic ExtractionError after one or
\* more attempts, the detail it carries is the message of the last attempt's
\* error, never that of an earlier attempt.
C24_DetailIsLastError ==
    \A t \in Threads :
        (calls[t].pc = "raised" /\ calls[t].raised[1].type = "ExtractionError")
          => /\ Len(calls[t].hist) >= 1
             /\ calls[t].raised[1].details
                  = Some(calls[t].hist[Len(calls[t].hist)].msg)
             /\ calls[t].last_error = Some(calls[t].hist[Len(calls[t].hist)])

C24_Witness ==
    /\ calls["t1"].pc = "raised"
    /\ calls["t1"].raised[1].type = "ExtractionError"
    /\ Len(calls["t1"].hist) = 3
    /\ calls["t1"].hist[2].origin = "shape"
    /\ calls["t1"].hist[3].origin = "provider"
    /\ calls["t1"].raised[1].details = Some(<<"Connection error.">>)

\* C30 (as claimed): under any interleaving, _get_client never returns a
\* handle paired with an unset deployment name: a call that received the
\* client received the configured deployment name with it.
C30_HandleHasDeployment ==
    \A t \in Threads :
        calls[t].handle # None
          => calls[t].deployment = Some(azure_openai_deployment)

(***************************************************************************)
(* One extract call after another while the wall clock advances, each      *)
(* step of the call being taken eventually: the code of extract runs on,   *)
(* and every inference call returns or fails.                              *)
(***************************************************************************)
ClockErrors ==
    { e \in ValidationErrors : e.msg = ValidationErrorStr({"extra_forbidden"}, "x") }
    \cup { e \in ValidationErrors : e.msg = ValidationErrorStr({"json_invalid"}, "x") }
    \cup { e \in ProviderErrors : e.msg \in { <<"Connection error.">>,
                                              <<"Error code: 401", "API">> } }

\* validated outputs without filter groups
ClockExtractions ==
    { [filter_groups |-> <<>>, group_operator_between_groups |-> None,
       original_query |-> q] : q \in Queries }

ProgramStep ==
    \/ \E e \in ClientErrors : GetClientFails(e)
    \/ SendRequest

AttemptCompletes ==
    \/ \E e \in ClockErrors \cap ProviderErrors : InferenceRaises(e)
    \/ \E e \in ClockErrors \cap ValidationErrors : ValidationFails(e)
    \/ \E x \in ClockExtractions : ValidationSucceeds(x)

NextClock ==
    \/ \E t \in ThreadTemperatureArgs : Extract("q1", t)
    \/ ProgramStep
    \/ AttemptCompletes
    \/ DayPasses

Fairness == WF_vars(ProgramStep) /\ WF_vars(AttemptCompletes)

SpecClock == Init /\ [][NextClock]_vars /\ Fairness

(***************************************************************************)
(* Helpers of the properties of the prompt builder: reading a date back    *)
(* from its YYYY-MM-DD text.                                               *)
(***************************************************************************)
DigitValue(ch) == CHOOSE k \in 0..9 : DigitChar(k) = ch

ParseDate(text) ==
    date(1000 * DigitValue(text[1]) + 100 * DigitValue(text[2])
           + 10 * DigitValue(text[3]) + DigitValue(text[4]),
         10 * DigitValue(text[6]) + DigitValue(text[7]),
         10 * DigitValue(text[9]) + DigitValue(text[10]))

DateLeq(a, b) ==
    a.year * 10000 + a.month * 100 + a.day <= b.year * 10000 + b.month * 100 + b.day

Text_2025_03_15 == <<"2", "0", "2", "5", "-", "0", "3", "-", "1", "5">>

Text_2025_11_01 == <<"2", "0", "2", "5", "-", "1", "1", "-", "0", "1">>

Text_2024_10_01 == <<"2", "0", "2", "4", "-", "1", "0", "-", "0", "1">>

Text_2025_09_30 == <<"2", "0", "2", "5", "-", "0", "9", "-", "3", "0">>

Text_2025_10_01 == <<"2", "0", "2", "5", "-", "1", "0", "-", "0", "1">>

Text_2026_09_30 == <<"2", "0", "2", "6", "-", "0", "9", "-", "3", "0">>

\* C22: for every reference date the current fiscal year is: month >= 10:
\* Oct 1 of the date's year to Sep 30 of the next year; otherwise Oct 1 of the
\* previous year to Sep 30 of the date's year.  2025-03-15 gives
\* 2024-10-01/2025-09-30, 2025-11-01 gives 2025-10-01/2026-09-30, and the
\* reference date lies within [start, end].
C22_FiscalYear ==
    composed.latest # None =>
      LET c == composed.latest[1]
          today == ParseDate(c.system.today_str)
          start == ParseDate(c.locals.current_fy_start)
          end == ParseDate(c.locals.current_fy_end)
      IN  /\ Len(c.locals.current_fy_start) = 10
          /\ Len(c.locals.current_fy_end) = 10
          /\ today.month >= 10 => /\ start = date(today.year, 10, 1)
                                  /\ end = date(today.year + 1, 9, 30)
          /\ today.month < 10 => /\ start = date(today.year - 1, 10, 1)
                                 /\ end = date(today.year, 9, 30)
          /\ DateLeq(start, today)
          /\ DateLeq(today, end)
          /\ c.system.today_str = Text_2025_03_15
               => /\ c.locals.current_fy_start = Text_2024_10_01
                  /\ c.locals.current_fy_end = Text_2025_09_30
          /\ c.system.today_str = Text_2025_11_01
               => /\ c.locals.current_fy_start = Text_2025_10_01
                  /\ c.locals.current_fy_end = Text_2026_09_30

C22_Witness ==
    /\ composed.latest # None
    /\ composed.latest[1].system.today_str = Text_2025_11_01
    /\ composed.latest[1].locals.current_fy_start = Text_2025_10_01
    /\ composed.previous # None
    /\ composed.previous[1].locals.current_fy_end = Text_2026_09_30

\* C23 (as claimed): two compositions with the same query and the same
\* recent-window length return identical system and user prompts: the result
\* depends on no state that is not passed as an argument.
C23_ComposerDeterministic ==
    (composed.previous # None /\ composed.latest # None) =>
      LET a == composed.previous[1]
          b == composed.latest[1]
      IN  (a.query = b.query /\ a.recent_days = b.recent_days)
            => (a.system = b.system /\ a.user = b.user)

\* C25 (as claimed): the instructions are composed once per extract call:
\* every attempt of one call sends the same system prompt and the same user
\* prompt, even if the wall-clock date changes between attempts.
C25_SamePromptsEveryAttempt ==
    \A i, j \in DOMAIN sent :
        /\ sent[i].system = sent[j].system
        /\ sent[i].user = sent[j].user

\* C27: every extract call terminates, provided each inference call returns
\* or fails: a running call eventually has returned a result or raised one
\* of the failure kinds, having made at most 5 attempts.
C27_Terminates ==
    (pc \in {"loop", "inflight"})
      ~> ( /\ pc \in {"returned", "raised"}
           /\ Len(sent) <= 5
           /\ result # None \/ raised # None
           /\ raised # None
                => raised[1].type \in {"AzureOpenAIError", "ExtractionError"} )

C27_Witness ==
    /\ pc = "raised"
    /\ Len(sent) = 5
    /\ Len(outcomes) = 5
    /\ elapsed = MaxDays
    /\ raised[1].type = "ExtractionError"

====
